---- MODULE Spec2Model ----
(***************************************************************************)
(* DefaultTemplateImageFinder (template matching by normalized             *)
(* cross-correlation) as a state machine.                                  *)
(*                                                                         *)
(* One call findMatch(request) is followed through its suspension points:  *)
(* findMatch calls findMatches, which validates the dimensions, awaits the *)
(* conversion of the haystack, awaits the conversion of the needle, runs   *)
(* templateMatch synchronously and settles its promise; findMatch then     *)
(* resumes and settles its own promise.                                    *)
(*                                                                         *)
(* Arithmetic.  The source computes in IEEE doubles; the model computes    *)
(* the same expressions exactly.  A mean is a rational, a standard         *)
(* deviation is the square root of a rational (kept as that rational), and *)
(* a confidence (ncc + 1) / 2 is kept as ncc = s * sqrt(n / d), with       *)
(* s in {-1, 0, 1} and n / d in lowest terms.  Rounding is not modelled.   *)
(***************************************************************************)
EXTENDS Integers, Sequences, FiniteSets, TLC

VARIABLES
    request,             \* the MatchRequest the caller built
    pc,                  \* where the call is suspended
    rawHaystack,         \* findMatches local haystackBuffer
    rawNeedle,           \* findMatches local needleBuffer
    findMatchesPromise,  \* the promise returned by findMatches
    findMatchPromise,    \* the promise returned by findMatch
    calls,               \* concurrent findMatches calls on one finder
    frames,              \* the locals of each findMatches invocation
    worker,              \* OCR DefaultAdapter: the field this.worker
    workers,             \* the Tesseract workers created so far
    ocr,                 \* the calls in flight on the OCR DefaultAdapter
    keys,                \* keyup: the keys it was called with
    held,                \* the keys the keyboard holds down
    pressKeyPromise,     \* keyup: keyboard.pressKey(...keys)
    releaseKeyPromise,   \* keyup: keyboard.releaseKey(...keys)
    keyupPromise         \* the promise keyup returns

ocrVars == <<worker, workers, ocr>>

keyVars == <<keys, held, pressKeyPromise, releaseKeyPromise, keyupPromise>>

vars ==
    <<request, pc, rawHaystack, rawNeedle, findMatchesPromise, findMatchPromise,
      calls, frames, ocrVars, keyVars>>

----------------------------------------------------------------------------
(* Bounds of the model *)

MaxPixel == 1
MaxHaystackWidth == 3
MaxHaystackHeight == 2
MaxNeedleWidth == 2
MaxNeedleHeight == 2
MaxColourSample == 10
MaxColourWidth == 2
ConcWidth == 2
MaxGainPixel == 3
GainWidth == 3
MaxTasks == 2
MaxKeys == 2

----------------------------------------------------------------------------
(* Exact arithmetic *)

Abs(i) == IF i < 0 THEN -i ELSE i

Sign(i) == IF i < 0 THEN -1 ELSE IF i = 0 THEN 0 ELSE 1

RECURSIVE GCD(_, _)
GCD(a, b) == IF b = 0 THEN a ELSE GCD(b, a % b)

\* The rational n / d in lowest terms, d > 0.
Rat(n, d) ==
    LET g == GCD(Abs(n), Abs(d))
        s == IF d < 0 THEN -1 ELSE 1
    IN  [n |-> (s * n) \div g, d |-> (s * d) \div g]

RInt(i) == [n |-> i, d |-> 1]
RAdd(p, q) == Rat(p.n * q.d + q.n * p.d, p.d * q.d)
RSub(p, q) == Rat(p.n * q.d - q.n * p.d, p.d * q.d)
RMul(p, q) == Rat(p.n * q.n, p.d * q.d)
RDiv(p, q) == Rat(p.n * q.d, p.d * q.n)
RLeq(p, q) == p.n * q.d <= q.n * p.d
RLess(p, q) == p.n * q.d < q.n * p.d

\* A real of the form s * sqrt(n / d): sign s, square n / d.
Root(s, sq) == [s |-> IF sq.n = 0 THEN 0 ELSE s, n |-> sq.n, d |-> sq.d]
RootOfRat(q) == Root(Sign(q.n), RMul(q, q))
RootSq(r) == [n |-> r.n, d |-> r.d]

\* r1 <= r2 for two such reals.
RootLeq(r1, r2) ==
    IF r1.s < 0
    THEN IF r2.s < 0 THEN RLeq(RootSq(r2), RootSq(r1)) ELSE TRUE
    ELSE IF r2.s < 0 THEN FALSE ELSE RLeq(RootSq(r1), RootSq(r2))

RootLess(r1, r2) == RootLeq(r1, r2) /\ r1 # r2

RootMul(r1, r2) == Root(r1.s * r2.s, RMul(RootSq(r1), RootSq(r2)))

\* The rational q divided by the real r (r # 0).
RatDivRoot(q, r) == Root(Sign(q.n) * r.s, RDiv(RMul(q, q), RootSq(r)))

RECURSIVE SumRat(_, _)
SumRat(f, n) == IF n = 0 THEN RInt(0) ELSE RAdd(SumRat(f, n - 1), f[n])

\* A confidence c is kept as the real 2c - 1 (the ncc it was mapped from).
ConfOfRat(q) == RootOfRat(RSub(RMul(RInt(2), q), RInt(1)))
ConfOfNcc(ncc) == ncc
ConfGeq(c1, c2) == RootLeq(c2, c1)
ConfGreater(c1, c2) == RootLess(c2, c1)
ConfOne == ConfOfRat(RInt(1))
ConfZero == ConfOfRat(RInt(0))
ConfInUnitInterval(c) == ConfGeq(c, ConfZero) /\ ConfGeq(ConfOne, c)

----------------------------------------------------------------------------
(* Data model *)

Undefined == "undefined"

\* request.confidence when the caller gave none
Absent == [n |-> 0, d |-> 0]

\* A Region built with its size and its position exchanged.
Region_SizeFirst(left, top, width, height) ==
    [left |-> width, top |-> height, width |-> left, height |-> top]

\* A Region that does not take over the offset it is given.
Region_AtOrigin(left, top, width, height) ==
    [left |-> 0, top |-> 0, width |-> width, height |-> height]

Region(left, top, width, height) ==
    [left |-> left, top |-> top, width |-> width, height |-> height]

MatchResult(confidence, location, error) ==
    [confidence |-> confidence, location |-> location, error |-> error]

MatchRequest(haystack, needle, confidence) ==
    [haystack |-> haystack, needle |-> needle, confidence |-> confidence]

Image(width, height, channels, data) ==
    [width |-> width, height |-> height, channels |-> channels, data |-> data]

DEFAULT_CONFIDENCE == Rat(4, 5)

ValidationError == "Needle image is larger than haystack image"
ConversionError == "Failed to convert image to raw buffer"
NoMatchError == "No matches found"

----------------------------------------------------------------------------
(* Window statistics *)

\* The result of 0 / 0; it is not equal to 0 and not >= any number.
NaN == [s |-> 0, n |-> 1, d |-> 0]

calculateMean(buffer) ==
    IF Len(buffer) = 0
    THEN NaN
    ELSE RDiv(SumRat([i \in 1..Len(buffer) |-> RInt(buffer[i])], Len(buffer)),
              RInt(Len(buffer)))

calculateStdDev(buffer, mean) ==
    LET sq == [i \in 1..Len(buffer) |->
                  LET dev == RSub(RInt(buffer[i]), mean) IN RMul(dev, dev)]
        sumSq == SumRat(sq, Len(buffer))
    IN  IF Len(buffer) = 0 THEN NaN ELSE Root(1, RDiv(sumSq, RInt(Len(buffer))))

IsZero(root) == root.n = 0

extractRegion(buffer, width, x, y, regionWidth, regionHeight) ==
    [k \in 1..(regionWidth * regionHeight) |->
        LET j == (k - 1) \div regionWidth
            i == (k - 1) % regionWidth
        IN  buffer[(y + j) * width + x + i + 1]]

\* A correlation that is not normalized by the needle's deviation.
calculateNCC_NoNeedleNorm(regionBuffer, needleBuffer, needleMean, needleStdDev) ==
    LET regionMean == calculateMean(regionBuffer)
        regionStdDev == calculateStdDev(regionBuffer, regionMean)
        prod == [i \in 1..Len(regionBuffer) |->
                    RMul(RSub(RInt(regionBuffer[i]), regionMean),
                         RSub(RInt(needleBuffer[i]), needleMean))]
        covariance == RDiv(SumRat(prod, Len(regionBuffer)), RInt(Len(regionBuffer)))
        ncc == RatDivRoot(covariance, regionStdDev)
    IN  IF Len(regionBuffer) = 0
        THEN NaN
        ELSE IF IsZero(regionStdDev)
        THEN IF IsZero(needleStdDev) THEN ConfOne ELSE ConfZero
        ELSE ConfOfNcc(ncc)

\* A correlation whose flat-window case has its two outcomes exchanged.
calculateNCC_FlatIsOne(regionBuffer, needleBuffer, needleMean, needleStdDev) ==
    LET regionMean == calculateMean(regionBuffer)
        regionStdDev == calculateStdDev(regionBuffer, regionMean)
        prod == [i \in 1..Len(regionBuffer) |->
                    RMul(RSub(RInt(regionBuffer[i]), regionMean),
                         RSub(RInt(needleBuffer[i]), needleMean))]
        covariance == RDiv(SumRat(prod, Len(regionBuffer)), RInt(Len(regionBuffer)))
        ncc == RatDivRoot(covariance, RootMul(regionStdDev, needleStdDev))
    IN  IF Len(regionBuffer) = 0
        THEN NaN
        ELSE IF IsZero(regionStdDev)
        THEN IF IsZero(needleStdDev) THEN ConfZero ELSE ConfOne
        ELSE ConfOfNcc(ncc)

\* A correlation whose covariance is the sum, not the mean, of the products.
calculateNCC_SumCovariance(regionBuffer, needleBuffer, needleMean, needleStdDev) ==
    LET regionMean == calculateMean(regionBuffer)
        regionStdDev == calculateStdDev(regionBuffer, regionMean)
        prod == [i \in 1..Len(regionBuffer) |->
                    RMul(RSub(RInt(regionBuffer[i]), regionMean),
                         RSub(RInt(needleBuffer[i]), needleMean))]
        covariance == SumRat(prod, Len(regionBuffer))
        ncc == RatDivRoot(covariance, RootMul(regionStdDev, needleStdDev))
    IN  IF Len(regionBuffer) = 0
        THEN NaN
        ELSE IF IsZero(regionStdDev)
        THEN IF IsZero(needleStdDev) THEN ConfOne ELSE ConfZero
        ELSE ConfOfNcc(ncc)

\* A correlation that is not normalized by the window's deviation.
calculateNCC_NoRegionNorm(regionBuffer, needleBuffer, needleMean, needleStdDev) ==
    LET regionMean == calculateMean(regionBuffer)
        regionStdDev == calculateStdDev(regionBuffer, regionMean)
        prod == [i \in 1..Len(regionBuffer) |->
                    RMul(RSub(RInt(regionBuffer[i]), regionMean),
                         RSub(RInt(needleBuffer[i]), needleMean))]
        covariance == RDiv(SumRat(prod, Len(regionBuffer)), RInt(Len(regionBuffer)))
        ncc == RatDivRoot(covariance, needleStdDev)
    IN  IF Len(regionBuffer) = 0
        THEN NaN
        ELSE IF IsZero(regionStdDev)
        THEN IF IsZero(needleStdDev) THEN ConfOne ELSE ConfZero
        ELSE ConfOfNcc(ncc)

calculateNCC(regionBuffer, needleBuffer, needleMean, needleStdDev) ==
    LET regionMean == calculateMean(regionBuffer)
        regionStdDev == calculateStdDev(regionBuffer, regionMean)
        prod == [i \in 1..Len(regionBuffer) |->
                    RMul(RSub(RInt(regionBuffer[i]), regionMean),
                         RSub(RInt(needleBuffer[i]), needleMean))]
        covariance == RDiv(SumRat(prod, Len(regionBuffer)), RInt(Len(regionBuffer)))
        ncc == RatDivRoot(covariance, RootMul(regionStdDev, needleStdDev))
    IN  IF Len(regionBuffer) = 0
        THEN NaN
        ELSE IF IsZero(regionStdDev)
        THEN IF IsZero(needleStdDev) THEN ConfOne ELSE ConfZero
        ELSE ConfOfNcc(ncc)

----------------------------------------------------------------------------
(* Correlation engine *)

\* The loops nested the other way round: for x, for y.
ScanOffsets_ColumnMajor(maxX, maxY) ==
    [k \in 1..((maxX + 1) * (maxY + 1)) |->
        [x |-> (k - 1) \div (maxY + 1), y |-> (k - 1) % (maxY + 1)]]

\* Loops that stop one short: x < maxX, y < maxY.
ScanOffsets_StopsShort(maxX, maxY) ==
    [k \in 1..(maxX * maxY) |->
        [x |-> (k - 1) % maxX, y |-> (k - 1) \div maxX]]

\* The candidate offsets in the order the nested loops visit them:
\* for y in 0..maxY, for x in 0..maxX.
ScanOffsets(maxX, maxY) ==
    [k \in 1..((maxX + 1) * (maxY + 1)) |->
        [x |-> (k - 1) % (maxX + 1), y |-> (k - 1) \div (maxX + 1)]]

\* A window test that accepts a window as soon as one pixel matches.
allMatch_AnyPixel(haystackBuffer, haystackWidth, x, y, needleWidth, needleHeight, needleValue) ==
    \E j \in 0..(needleHeight - 1) : \E i \in 0..(needleWidth - 1) :
        RInt(haystackBuffer[(y + j) * haystackWidth + (x + i) + 1]) = needleValue

\* A window test that steps through the haystack with the needle's row length.
allMatch_NeedleStride(haystackBuffer, haystackWidth, x, y, needleWidth, needleHeight, needleValue) ==
    \A j \in 0..(needleHeight - 1) : \A i \in 0..(needleWidth - 1) :
        RInt(haystackBuffer[(y + j) * needleWidth + (x + i) + 1]) = needleValue

\* The innermost loops of findUniformMatches: every pixel of the window at
\* (x, y) equals needleValue.
allMatch(haystackBuffer, haystackWidth, x, y, needleWidth, needleHeight, needleValue) ==
    \A j \in 0..(needleHeight - 1) : \A i \in 0..(needleWidth - 1) :
        RInt(haystackBuffer[(y + j) * haystackWidth + (x + i) + 1]) = needleValue

findUniformMatches(haystackBuffer, haystackWidth, haystackHeight, needleBuffer, needleWidth, needleHeight, needleValue, minConfidence) ==
    LET maxX == haystackWidth - needleWidth
        maxY == haystackHeight - needleHeight
        scan == ScanOffsets(maxX, maxY)
        hits == SelectSeq(scan, LAMBDA o :
                    allMatch(haystackBuffer, haystackWidth, o.x, o.y,
                             needleWidth, needleHeight, needleValue))
    IN  [k \in 1..Len(hits) |->
            MatchResult(ConfOne,
                        Region(hits[k].x, hits[k].y, needleWidth, needleHeight),
                        Undefined)]

\* A threshold test with the comparison turned round.
MeetsThreshold_Reversed(confidence, minConfidence) == ConfGeq(minConfidence, confidence)

\* The test that admits a window to the result list.
MeetsThreshold(confidence, minConfidence) ==
    confidence # NaN /\ ConfGeq(confidence, minConfidence)

templateMatch(haystackBuffer, haystackWidth, haystackHeight, needleBuffer, needleWidth, needleHeight, minConfidence) ==
    LET maxX == haystackWidth - needleWidth
        maxY == haystackHeight - needleHeight
        needleMean == calculateMean(needleBuffer)
        needleStdDev == calculateStdDev(needleBuffer, needleMean)
        scan == ScanOffsets(maxX, maxY)
        scored == [k \in 1..Len(scan) |->
            LET regionBuffer == extractRegion(haystackBuffer, haystackWidth,
                                              scan[k].x, scan[k].y,
                                              needleWidth, needleHeight)
                confidence == calculateNCC(regionBuffer, needleBuffer,
                                           needleMean, needleStdDev)
            IN  MatchResult(confidence,
                            Region(scan[k].x, scan[k].y, needleWidth, needleHeight),
                            Undefined)]
    IN  IF IsZero(needleStdDev)
        THEN findUniformMatches(haystackBuffer, haystackWidth, haystackHeight,
                                needleBuffer, needleWidth, needleHeight,
                                needleMean, minConfidence)
        ELSE SelectSeq(scored, LAMBDA m : MeetsThreshold(m.confidence, minConfidence))

----------------------------------------------------------------------------
(* Pixel buffer adapter: sharp(data, {raw}).grayscale().raw().toBuffer() *)

\* A sharp that takes raw input of any width and height.
SharpAccepts_AnySize(image) ==
    /\ image.channels \in 1..4
    /\ Len(image.data) = image.width * image.height * image.channels

\* sharp rejects raw input whose dimensions are not positive, whose channel
\* count is outside 1..4, or whose data length is not width*height*channels.
SharpAccepts(image) ==
    /\ image.width > 0
    /\ image.height > 0
    /\ image.channels \in 1..4
    /\ Len(image.data) = image.width * image.height * image.channels

\* The luminance of a colour pixel whose first three samples are taken as
\* red, green, blue (weights 0.2126, 0.7152, 0.0722).
Luma(r, g, b) == (2126 * r + 7152 * g + 722 * b) \div 10000

\* grayscale() collapses the colour channels of a pixel to one sample and
\* leaves an alpha channel unchanged: a 1-channel image comes out as it went
\* in, a 2-channel (grey, alpha) image comes out with both samples per pixel,
\* a 3-channel image with one sample per pixel and a 4-channel image with
\* two (luminance, alpha).  The samples are read in the order they are stored:
\* nothing but data, width, height and channels is given to sharp.
Grayscale(image) ==
    LET c == image.channels
        out == IF c \in {2, 4} THEN 2 ELSE 1
    IN  [k \in 1..(image.width * image.height * out) |->
            LET base == ((k - 1) \div out) * c
            IN  IF (k - 1) % out = 1
                THEN image.data[base + c]
                ELSE IF c >= 3
                     THEN Luma(image.data[base + 1], image.data[base + 2],
                               image.data[base + 3])
                     ELSE image.data[base + 1]]

\* A conversion that hands the image's buffer over and leaves it empty.
imageAfterConversion_Detaches(image) == [image EXCEPT !.data = <<>>]

\* The image after imageToRawBuffer(image): sharp reads image.data, and the
\* result is copied into a new Uint8Array; nothing is written to the image.
imageAfterConversion(image) == image

imageToRawBuffer(image) ==
    IF SharpAccepts(image)
    THEN [ok |-> TRUE, buffer |-> Grayscale(image), error |-> Undefined]
    ELSE [ok |-> FALSE, buffer |-> <<>>, error |-> ConversionError]

----------------------------------------------------------------------------
(* Match aggregator *)

Pending == [state |-> "pending", value |-> <<>>, reason |-> Undefined]
Fulfilled(value) == [state |-> "fulfilled", value |-> value, reason |-> Undefined]
Rejected(reason) == [state |-> "rejected", value |-> <<>>, reason |-> reason]

\* A default threshold of 0.7 in place of DEFAULT_CONFIDENCE.
minConfidenceOf_OtherDefault(matchRequest) ==
    IF matchRequest.confidence = Absent
    THEN ConfOfRat(Rat(7, 10))
    ELSE ConfOfRat(matchRequest.confidence)

minConfidenceOf(matchRequest) ==
    IF matchRequest.confidence = Absent
    THEN ConfOfRat(DEFAULT_CONFIDENCE)
    ELSE ConfOfRat(matchRequest.confidence)

\* A validation that compares the heights only.
NeedleLargerThanHaystack_HeightOnly(haystack, needle) ==
    haystack.height < needle.height

\* A validation that compares the widths only.
NeedleLargerThanHaystack_WidthOnly(haystack, needle) ==
    haystack.width < needle.width

\* The validation of findMatches.
NeedleLargerThanHaystack(haystack, needle) ==
    haystack.width < needle.width \/ haystack.height < needle.height

\* A catch clause that turns the failure into an empty result.
findMatchesCatch_Swallows(error) == Fulfilled(<<>>)

\* The catch clause of findMatches: the error is thrown again.
findMatchesCatch(error) == Rejected(error)

\* A reducer that also replaces the best on equal confidence.
reducer_LastWins(best, current) ==
    IF ConfGeq(current.confidence, best.confidence) THEN current ELSE best

\* The reducer of findMatch.
reducer(best, current) ==
    IF ConfGreater(current.confidence, best.confidence) THEN current ELSE best

\* matches.reduce(reducer) without an initial value, over matches[1..k].
RECURSIVE reduce(_, _)
reduce(matches, k) ==
    IF k = 1 THEN matches[1] ELSE reducer(reduce(matches, k - 1), matches[k])

\* A try block that returns the first match of the list.
findMatchTry_FirstOfList(matches) ==
    IF Len(matches) = 0
    THEN Fulfilled(MatchResult(ConfOfRat(RInt(0)), Region(0, 0, 0, 0), NoMatchError))
    ELSE Fulfilled(matches[1])

\* The try block of findMatch once findMatches has fulfilled.
findMatchTry(matches) ==
    IF Len(matches) = 0
    THEN Fulfilled(MatchResult(ConfOfRat(RInt(0)), Region(0, 0, 0, 0), NoMatchError))
    ELSE Fulfilled(reduce(matches, Len(matches)))

\* findMatch without its catch clause: the error of findMatches propagates.
findMatchCatch_Propagates(error) == Rejected(error)

\* A catch clause that reports full confidence next to the error.
findMatchCatch_FullConfidence(error) ==
    Fulfilled(MatchResult(ConfOfRat(RInt(1)), Region(0, 0, 0, 0), error))

\* The catch clause of findMatch.
findMatchCatch(error) ==
    Fulfilled(MatchResult(ConfOfRat(RInt(0)), Region(0, 0, 0, 0), error))

----------------------------------------------------------------------------
(* The requests a caller can build *)

Pixels == 0..MaxPixel

\* The alpha sample of an opaque pixel (the largest sample value).
Opaque == MaxPixel

GreyData(width, height) == [1..(width * height) -> Pixels]

\* One-channel data as (grey, alpha) pairs.
WithAlpha(data) ==
    [k \in 1..(2 * Len(data)) |-> IF k % 2 = 1 THEN data[(k + 1) \div 2] ELSE Opaque]

\* Data one sample short of what the dimensions declare.
Truncated(data) == SubSeq(data, 1, Len(data) - 1)

ImagesOfSize(width, height) ==
    UNION { { Image(width, height, 1, data),
              Image(width, height, 2, WithAlpha(data)),
              Image(width, height, 1, Truncated(data)) } :
            data \in GreyData(width, height) }

Images(maxWidth, maxHeight) ==
    UNION { ImagesOfSize(width, height) :
            width \in 0..maxWidth, height \in 0..maxHeight }

\* The scenario of the design's section 8: a 4x4 haystack of 10 with a 2x2
\* block of 200 at (1,1), and a 2x2 needle of 200.
ScenarioHaystack ==
    Image(4, 4, 1,
          [k \in 1..16 |-> IF k \in {6, 7, 10, 11} THEN 200 ELSE 10])
ScenarioNeedle == Image(2, 2, 1, [k \in 1..4 |-> 200])

Haystacks == Images(MaxHaystackWidth, MaxHaystackHeight) \cup {ScenarioHaystack}
Needles == Images(MaxNeedleWidth, MaxNeedleHeight) \cup {ScenarioNeedle}
Confidences == {Absent, RInt(0), Rat(1, 2), RInt(1), Rat(3, 2)}

\* ColorMode of @nut-tree-fork/shared, as declared in lib/utils/img.
BGR == 0
RGB == 1

\* An Image with its color-mode tag.
TaggedImage(width, height, channels, data, colorMode) ==
    [width |-> width, height |-> height, channels |-> channels, data |-> data,
     colorMode |-> colorMode]

ColourSamples == {0, MaxColourSample}

\* Colour data of n pixels, without and with an opaque alpha sample.
ColourData(n, channels) ==
    { data \in [1..(n * channels) -> ColourSamples] :
        channels = 4 => \A p \in 1..n : data[4 * p] = MaxColourSample }

\* What imageResource returns for a picture: raw().ensureAlpha() gives four
\* channels, and the tag is always ColorMode.RGB.
imageResource(width, height) ==
    { TaggedImage(width, height, 4, data, RGB) :
        data \in ColourData(width * height, 4) }

\* Colour images as a caller can pass them: 3 or 4 channels, either tag.
ColourImages(maxWidth) ==
    UNION { imageResource(width, 1) \cup
            UNION { { TaggedImage(width, 1, channels, data, colorMode) :
                        data \in ColourData(width, channels),
                        colorMode \in {BGR, RGB} } :
                    channels \in {3, 4} } :
            width \in 1..maxWidth }

ColourRequests ==
    { MatchRequest(haystack, needle, Absent) :
        haystack \in ColourImages(MaxColourWidth), needle \in ColourImages(1) }

Requests ==
    { MatchRequest(haystack, needle, confidence) :
        haystack \in Haystacks, needle \in Needles, confidence \in Confidences }

\* No call on the OCR adapter, no keyup call.
OcrIdle == worker = 0 /\ workers = <<>> /\ ocr = <<>>

KeysIdle ==
    /\ keys = <<>>
    /\ held = {}
    /\ pressKeyPromise = Pending
    /\ releaseKeyPromise = Pending
    /\ keyupPromise = Pending

----------------------------------------------------------------------------
(* The call *)

Init ==
    /\ request \in Requests
    /\ pc = "called"
    /\ rawHaystack = <<>>
    /\ rawNeedle = <<>>
    /\ findMatchesPromise = Pending
    /\ findMatchPromise = Pending
    /\ calls = <<>>
    /\ frames = <<>>
    /\ OcrIdle
    /\ KeysIdle

\* findMatch is entered and calls findMatches, which runs up to its first
\* await: the request is destructured and the dimensions are validated.
FindMatch ==
    /\ pc = "called"
    /\ IF NeedleLargerThanHaystack(request.haystack, request.needle)
       THEN /\ findMatchesPromise' = findMatchesCatch(ValidationError)
            /\ pc' = "settled"
       ELSE /\ findMatchesPromise' = findMatchesPromise
            /\ pc' = "awaitHaystack"
    /\ UNCHANGED <<request, rawHaystack, rawNeedle, findMatchPromise, calls, frames, ocrVars, keyVars>>

\* await this.imageToRawBuffer(haystack) completes.
ConvertHaystack ==
    /\ pc = "awaitHaystack"
    /\ LET converted == imageToRawBuffer(request.haystack)
       IN  IF converted.ok
           THEN /\ rawHaystack' = converted.buffer
                /\ findMatchesPromise' = findMatchesPromise
                /\ pc' = "awaitNeedle"
           ELSE /\ rawHaystack' = rawHaystack
                /\ findMatchesPromise' = findMatchesCatch(converted.error)
                /\ pc' = "settled"
    /\ request' = [request EXCEPT !.haystack = imageAfterConversion(request.haystack)]
    /\ UNCHANGED <<rawNeedle, findMatchPromise, calls, frames, ocrVars, keyVars>>

\* await this.imageToRawBuffer(needle) completes; templateMatch runs and
\* findMatches returns.
ConvertNeedle ==
    /\ pc = "awaitNeedle"
    /\ LET converted == imageToRawBuffer(request.needle)
       IN  IF converted.ok
           THEN /\ rawNeedle' = converted.buffer
                /\ findMatchesPromise' =
                       Fulfilled(templateMatch(rawHaystack,
                                               request.haystack.width,
                                               request.haystack.height,
                                               converted.buffer,
                                               request.needle.width,
                                               request.needle.height,
                                               minConfidenceOf(request)))
           ELSE /\ rawNeedle' = rawNeedle
                /\ findMatchesPromise' = findMatchesCatch(converted.error)
    /\ pc' = "settled"
    /\ request' = [request EXCEPT !.needle = imageAfterConversion(request.needle)]
    /\ UNCHANGED <<rawHaystack, findMatchPromise, calls, frames, ocrVars, keyVars>>

\* findMatch resumes after await this.findMatches(matchRequest).
FindMatchResume ==
    /\ pc = "settled"
    /\ findMatchPromise' =
           IF findMatchesPromise.state = "fulfilled"
           THEN findMatchTry(findMatchesPromise.value)
           ELSE findMatchCatch(findMatchesPromise.reason)
    /\ pc' = "done"
    /\ UNCHANGED <<request, rawHaystack, rawNeedle, findMatchesPromise, calls, frames, ocrVars, keyVars>>

Next == FindMatch \/ ConvertHaystack \/ ConvertNeedle \/ FindMatchResume

Spec == Init /\ [][Next]_vars

\* The same call on colour images.
InitColour ==
    /\ request \in ColourRequests
    /\ pc = "called"
    /\ rawHaystack = <<>>
    /\ rawNeedle = <<>>
    /\ findMatchesPromise = Pending
    /\ findMatchPromise = Pending
    /\ calls = <<>>
    /\ frames = <<>>
    /\ OcrIdle
    /\ KeysIdle

SpecColour == InitColour /\ [][Next]_vars

\* The same call on one-row images with more grey levels, needle and
\* haystack of one size, every window reported (threshold 0).
GainImages ==
    UNION { { Image(GainWidth, 1, 1, data), Image(GainWidth, 1, 2, WithAlpha(data)) } :
            data \in [1..GainWidth -> 0..MaxGainPixel] }

GainRequests ==
    { MatchRequest(haystack, needle, RInt(0)) :
        haystack \in { image \in GainImages : image.channels = 1 },
        needle \in GainImages }

InitGain ==
    /\ request \in GainRequests
    /\ pc = "called"
    /\ rawHaystack = <<>>
    /\ rawNeedle = <<>>
    /\ findMatchesPromise = Pending
    /\ findMatchPromise = Pending
    /\ calls = <<>>
    /\ frames = <<>>
    /\ OcrIdle
    /\ KeysIdle

SpecGain == InitGain /\ [][Next]_vars

-----------------------------------------------------------------------------
(* Two findMatches calls in flight on one finder *)

\* findMatches run from call to settlement with nothing else in between.
findMatches(matchRequest) ==
    LET haystack == matchRequest.haystack
        needle == matchRequest.needle
        convertedHaystack == imageToRawBuffer(haystack)
        convertedNeedle == imageToRawBuffer(needle)
    IN  IF NeedleLargerThanHaystack(haystack, needle)
        THEN findMatchesCatch(ValidationError)
        ELSE IF ~convertedHaystack.ok
        THEN findMatchesCatch(convertedHaystack.error)
        ELSE IF ~convertedNeedle.ok
        THEN findMatchesCatch(convertedNeedle.error)
        ELSE Fulfilled(templateMatch(convertedHaystack.buffer,
                                     haystack.width, haystack.height,
                                     convertedNeedle.buffer,
                                     needle.width, needle.height,
                                     minConfidenceOf(matchRequest)))

Callers == {1, 2}

\* One haystackBuffer and needleBuffer for all calls, as fields of the finder
\* would be.
frameOf_Shared(c) == 1

\* haystackBuffer and needleBuffer are consts of the invocation: each call
\* has its own.
frameOf(c) == c

NoBuffers == [haystackBuffer |-> <<>>, needleBuffer |-> <<>>]

\* Haystacks of one size, needles that fit, do not fit, or do not convert.
ConcHaystacks ==
    { image \in ImagesOfSize(ConcWidth, 1) : image.channels = 1 }

ConcNeedles ==
    UNION { ImagesOfSize(width, 1) : width \in 1..ConcWidth }
        \cup ImagesOfSize(1, 2)

ConcRequests ==
    { MatchRequest(haystack, needle, Absent) :
        haystack \in ConcHaystacks, needle \in ConcNeedles }

InitConc ==
    /\ calls \in [Callers -> { [request |-> r, pc |-> "called", promise |-> Pending] :
                                r \in ConcRequests }]
    /\ frames = [c \in Callers |-> NoBuffers]
    /\ OcrIdle
    /\ KeysIdle
    /\ request = Undefined
    /\ pc = "idle"
    /\ rawHaystack = <<>>
    /\ rawNeedle = <<>>
    /\ findMatchesPromise = Pending
    /\ findMatchPromise = Pending

single ==
    <<request, pc, rawHaystack, rawNeedle, findMatchesPromise, findMatchPromise>>

\* Call c enters findMatches and runs up to its first await.
CallFindMatches(c) ==
    /\ calls[c].pc = "called"
    /\ calls' =
          IF NeedleLargerThanHaystack(calls[c].request.haystack,
                                      calls[c].request.needle)
          THEN [calls EXCEPT ![c].promise = findMatchesCatch(ValidationError),
                             ![c].pc = "settled"]
          ELSE [calls EXCEPT ![c].pc = "awaitHaystack"]
    /\ UNCHANGED <<frames, single, ocrVars, keyVars>>

\* Call c resumes after await this.imageToRawBuffer(haystack).
ResumeAfterHaystack(c) ==
    /\ calls[c].pc = "awaitHaystack"
    /\ LET converted == imageToRawBuffer(calls[c].request.haystack)
       IN  IF converted.ok
           THEN /\ frames' = [frames EXCEPT
                                 ![frameOf(c)].haystackBuffer = converted.buffer]
                /\ calls' = [calls EXCEPT ![c].pc = "awaitNeedle"]
           ELSE /\ frames' = frames
                /\ calls' = [calls EXCEPT
                                ![c].promise = findMatchesCatch(converted.error),
                                ![c].pc = "settled"]
    /\ UNCHANGED <<single, ocrVars, keyVars>>

\* Call c resumes after await this.imageToRawBuffer(needle), runs
\* templateMatch on its buffers and returns.
ResumeAfterNeedle(c) ==
    /\ calls[c].pc = "awaitNeedle"
    /\ LET converted == imageToRawBuffer(calls[c].request.needle)
           matchRequest == calls[c].request
       IN  IF converted.ok
           THEN /\ frames' = [frames EXCEPT
                                 ![frameOf(c)].needleBuffer = converted.buffer]
                /\ calls' = [calls EXCEPT
                      ![c].promise =
                          Fulfilled(templateMatch(
                              frames[frameOf(c)].haystackBuffer,
                              matchRequest.haystack.width,
                              matchRequest.haystack.height,
                              converted.buffer,
                              matchRequest.needle.width,
                              matchRequest.needle.height,
                              minConfidenceOf(matchRequest))),
                      ![c].pc = "settled"]
           ELSE /\ frames' = frames
                /\ calls' = [calls EXCEPT
                                ![c].promise = findMatchesCatch(converted.error),
                                ![c].pc = "settled"]
    /\ UNCHANGED <<single, ocrVars, keyVars>>

NextConc ==
    \E c \in Callers :
        CallFindMatches(c) \/ ResumeAfterHaystack(c) \/ ResumeAfterNeedle(c)

SpecConc == InitConc /\ [][NextConc]_vars

-----------------------------------------------------------------------------
(* The OCR DefaultAdapter and its Tesseract worker *)

\* this.worker = null
NoWorker == 0

Tasks == 1..MaxTasks

Operations == {"findMatches", "initializeWorker", "terminateWorker", "cleanup"}

\* A call of one of the adapter's methods: where it is suspended, the worker
\* its pending Tesseract job runs on, what recognize was invoked on, and how
\* the call ended.
Task(op) ==
    [op |-> op, pc |-> "called", target |-> NoWorker, recognizeOn |-> "none",
     outcome |-> "pending"]

\* No template-finder call.
FinderIdle ==
    /\ request = Undefined
    /\ pc = "idle"
    /\ rawHaystack = <<>>
    /\ rawNeedle = <<>>
    /\ findMatchesPromise = Pending
    /\ findMatchPromise = Pending
    /\ calls = <<>>
    /\ frames = <<>>

InitOcr ==
    /\ ocr \in [Tasks -> { Task(op) : op \in Operations }]
    /\ worker = NoWorker
    /\ workers = <<>>
    /\ FinderIdle
    /\ KeysIdle

finder == <<single, calls, frames>>

\* A job on a live worker resolves; what a job on a terminated worker does
\* is the library's affair: it may resolve, reject, or never settle.
JobOutcomes(w) == IF workers[w] = "live" THEN {TRUE} ELSE BOOLEAN

\* initializeWorker up to its first await, run by task c.
initializeWorkerStart(c) ==
    /\ ocr' = [ocr EXCEPT
                 ![c].pc = IF worker = NoWorker THEN "awaitCreateWorker"
                           ELSE IF ocr[c].op = "findMatches"
                           THEN "awaitInitializeWorker"
                           ELSE "done",
                 ![c].outcome = IF worker # NoWorker /\ ocr[c].op # "findMatches"
                                THEN "returned" ELSE "pending"]
    /\ UNCHANGED <<worker, workers>>

\* terminateWorker up to its await, run by task c whose record becomes task:
\* a worker in the field is told to terminate; with none the method returns.
terminateWorkerStart(c, task) ==
    IF worker # NoWorker
    THEN /\ workers' = [workers EXCEPT ![worker] = "terminated"]
         /\ ocr' = [ocr EXCEPT ![c] = [task EXCEPT !.pc = "awaitTerminate"]]
         /\ worker' = worker
    ELSE /\ ocr' = [ocr EXCEPT ![c] = [task EXCEPT !.pc = "done"]]
         /\ UNCHANGED <<worker, workers>>

OcrFindMatches(c) ==
    /\ ocr[c].pc = "called"
    /\ ocr[c].op = "findMatches"
    /\ initializeWorkerStart(c)
    /\ UNCHANGED <<finder, keyVars>>

InitializeWorker(c) ==
    /\ ocr[c].pc = "called"
    /\ ocr[c].op = "initializeWorker"
    /\ initializeWorkerStart(c)
    /\ UNCHANGED <<finder, keyVars>>

TerminateWorker(c) ==
    /\ ocr[c].pc = "called"
    /\ ocr[c].op = "terminateWorker"
    /\ terminateWorkerStart(c, [ocr[c] EXCEPT !.outcome = "returned"])
    /\ UNCHANGED <<finder, keyVars>>

Cleanup(c) ==
    /\ ocr[c].pc = "called"
    /\ ocr[c].op = "cleanup"
    /\ terminateWorkerStart(c, [ocr[c] EXCEPT !.outcome = "returned"])
    /\ UNCHANGED <<finder, keyVars>>

\* Tesseract.createWorker resolves: the new worker is stored in the field
\* and setParameters is called on it.
CreateWorkerResolves(c) ==
    /\ ocr[c].pc = "awaitCreateWorker"
    /\ workers' = Append(workers, "live")
    /\ worker' = Len(workers) + 1
    /\ ocr' = [ocr EXCEPT ![c].pc = "awaitSetParameters",
                          ![c].target = Len(workers) + 1]
    /\ UNCHANGED <<finder, keyVars>>

\* setParameters settles and initializeWorker returns or throws; findMatches
\* catches, rethrows and runs its finally block.
SetParametersSettles(c) ==
    /\ ocr[c].pc = "awaitSetParameters"
    /\ \E ok \in JobOutcomes(ocr[c].target) :
          IF ok
          THEN /\ ocr' = [ocr EXCEPT
                            ![c].pc = IF ocr[c].op = "findMatches"
                                      THEN "awaitInitializeWorker" ELSE "done",
                            ![c].outcome = IF ocr[c].op = "findMatches"
                                           THEN "pending" ELSE "returned"]
               /\ UNCHANGED <<worker, workers>>
          ELSE IF ocr[c].op = "findMatches"
               THEN terminateWorkerStart(c, [ocr[c] EXCEPT !.outcome = "threw"])
               ELSE /\ ocr' = [ocr EXCEPT ![c].pc = "done", ![c].outcome = "threw"]
                    /\ UNCHANGED <<worker, workers>>
    /\ UNCHANGED <<finder, keyVars>>

\* findMatches resumes after await this.initializeWorker() and calls
\* prepareImageForOCR.
ResumeAfterInitializeWorker(c) ==
    /\ ocr[c].pc = "awaitInitializeWorker"
    /\ ocr' = [ocr EXCEPT ![c].pc = "awaitPrepare"]
    /\ UNCHANGED <<worker, workers, finder, keyVars>>

\* prepareImageForOCR settles.  When it threw, the finally block runs.
\* Otherwise this.worker is read and recognize is invoked on it: on null
\* that is a TypeError, caught and rethrown, and the finally block runs.
PrepareSettles(c) ==
    /\ ocr[c].pc = "awaitPrepare"
    /\ \E ok \in BOOLEAN :
          IF ~ok
          THEN terminateWorkerStart(c, [ocr[c] EXCEPT !.outcome = "threw"])
          ELSE IF worker = NoWorker
          THEN terminateWorkerStart(c, [ocr[c] EXCEPT !.outcome = "threw",
                                                      !.recognizeOn = "null"])
          ELSE /\ ocr' = [ocr EXCEPT ![c].pc = "awaitRecognize",
                                     ![c].target = worker,
                                     ![c].recognizeOn = workers[worker]]
               /\ UNCHANGED <<worker, workers>>
    /\ UNCHANGED <<finder, keyVars>>

\* recognize settles; the finally block calls terminateWorker.
RecognizeSettles(c) ==
    /\ ocr[c].pc = "awaitRecognize"
    /\ \E ok \in JobOutcomes(ocr[c].target) :
          terminateWorkerStart(c, [ocr[c] EXCEPT
                                     !.outcome = IF ok THEN "returned" ELSE "threw"])
    /\ UNCHANGED <<finder, keyVars>>

\* worker.terminate() resolves: this.worker = null, and the call is over.
TerminateResolves(c) ==
    /\ ocr[c].pc = "awaitTerminate"
    /\ worker' = NoWorker
    /\ ocr' = [ocr EXCEPT ![c].pc = "done"]
    /\ UNCHANGED <<workers, finder, keyVars>>

NextOcr ==
    \E c \in Tasks :
        \/ OcrFindMatches(c)
        \/ InitializeWorker(c)
        \/ TerminateWorker(c)
        \/ Cleanup(c)
        \/ CreateWorkerResolves(c)
        \/ SetParametersSettles(c)
        \/ ResumeAfterInitializeWorker(c)
        \/ PrepareSettles(c)
        \/ RecognizeSettles(c)
        \/ TerminateResolves(c)

SpecOcr == InitOcr /\ [][NextOcr]_vars

-----------------------------------------------------------------------------
(* keyboard.keyup *)

\* The keys the shortcuts use.
KeyNames ==
    {"LeftControl", "A", "C", "V", "RightAlt", "RightShift", "LeftAlt", "F4",
     "LeftWin", "R", "L"}

\* shortcut: each entry calls keyup with two keys.
shortcut ==
    { <<"LeftControl", "A">>, <<"LeftControl", "C">>, <<"LeftControl", "V">>,
      <<"RightAlt", "RightShift">>, <<"LeftAlt", "F4">>, <<"LeftWin", "R">>,
      <<"LeftWin", "L">> }

\* The argument lists of keyup: those of the shortcuts and any others.
KeyLists ==
    shortcut \cup UNION { [1..n -> KeyNames] : n \in 1..MaxKeys }

NotCalled == [state |-> "notCalled", value |-> <<>>, reason |-> Undefined]

KeyboardError == "keyboard action failed"

KeysOf(list) == { list[i] : i \in 1..Len(list) }

InitKeys ==
    /\ keys \in KeyLists
    /\ held = {}
    /\ pressKeyPromise = NotCalled
    /\ releaseKeyPromise = NotCalled
    /\ keyupPromise = NotCalled
    /\ FinderIdle
    /\ OcrIdle

\* keyup(...keys): the executor of the new Promise runs at once and calls
\* keyboard.pressKey(...keys).
Keyup ==
    /\ keyupPromise = NotCalled
    /\ keyupPromise' = Pending
    /\ pressKeyPromise' = Pending
    /\ UNCHANGED <<keys, held, releaseKeyPromise, finder, ocrVars>>

\* The keyboard presses the keys and resolves, or fails after some of them.
PressKeySettles ==
    /\ pressKeyPromise = Pending
    /\ \/ /\ pressKeyPromise' = Fulfilled("keyboard")
          /\ held' = held \cup KeysOf(keys)
       \/ /\ pressKeyPromise' = Rejected(KeyboardError)
          /\ \E n \in 0..(Len(keys) - 1) : held' = held \cup KeysOf(SubSeq(keys, 1, n))
    /\ UNCHANGED <<keys, releaseKeyPromise, keyupPromise, finder, ocrVars>>

\* The then-callback of pressKey calls keyboard.releaseKey(...keys).
PressKeyThen ==
    /\ pressKeyPromise.state = "fulfilled"
    /\ releaseKeyPromise = NotCalled
    /\ releaseKeyPromise' = Pending
    /\ UNCHANGED <<keys, held, pressKeyPromise, keyupPromise, finder, ocrVars>>

\* The keyboard releases the keys and resolves, or fails after some of them.
ReleaseKeySettles ==
    /\ releaseKeyPromise = Pending
    /\ \/ /\ releaseKeyPromise' = Fulfilled("keyboard")
          /\ held' = held \ KeysOf(keys)
       \/ /\ releaseKeyPromise' = Rejected(KeyboardError)
          /\ \E n \in 0..(Len(keys) - 1) : held' = held \ KeysOf(SubSeq(keys, 1, n))
    /\ UNCHANGED <<keys, pressKeyPromise, keyupPromise, finder, ocrVars>>

\* The then-callback of releaseKey resolves the promise of keyup: rs(res).
ReleaseKeyThen ==
    /\ releaseKeyPromise.state = "fulfilled"
    /\ keyupPromise = Pending
    /\ keyupPromise' = Fulfilled(releaseKeyPromise.value)
    /\ UNCHANGED <<keys, held, pressKeyPromise, releaseKeyPromise, finder, ocrVars>>

NextKeys ==
    Keyup \/ PressKeySettles \/ PressKeyThen \/ ReleaseKeySettles \/ ReleaseKeyThen

\* Every callback that is ready runs, and the keyboard settles every promise
\* it has handed out.
SpecKeys ==
    /\ InitKeys
    /\ [][NextKeys]_vars
    /\ WF_vars(Keyup)
    /\ WF_vars(PressKeySettles)
    /\ WF_vars(PressKeyThen)
    /\ WF_vars(ReleaseKeySettles)
    /\ WF_vars(ReleaseKeyThen)

----------------------------------------------------------------------------
(* Properties *)

FindMatchesSettled == findMatchesPromise.state # "pending"
FindMatchesReturned == findMatchesPromise.state = "fulfilled"
FindMatchesThrew == findMatchesPromise.state = "rejected"
FindMatchReturned == findMatchPromise.state = "fulfilled"
NoRegion == Region(0, 0, 0, 0)

\* C1: findMatch never throws: its promise is never rejected, and once the
\* call is over it is fulfilled with a MatchResult; when findMatches failed
\* (validation or conversion), that failure is the result's error field.
C1_FindMatchNeverThrows ==
    /\ findMatchPromise.state # "rejected"
    /\ pc = "done" =>
          /\ FindMatchReturned
          /\ DOMAIN findMatchPromise.value = {"confidence", "location", "error"}
          /\ FindMatchesThrew =>
                findMatchPromise.value.error = findMatchesPromise.reason

C1_Witness ==
    /\ pc = "done"
    /\ FindMatchesThrew
    /\ findMatchesPromise.reason = ConversionError
    /\ FindMatchReturned
    /\ findMatchPromise.value.error = ConversionError

\* C2: when the needle is strictly wider or strictly taller than the
\* haystack, findMatches throws the validation error (it returns no list),
\* and findMatch returns confidence 0, location (0,0,0,0) and that error.
C2_Oversize ==
    \/ request.needle.width > request.haystack.width
    \/ request.needle.height > request.haystack.height

C2_BoundsValidation ==
    C2_Oversize =>
        /\ pc # "called" => findMatchesPromise = Rejected(ValidationError)
        /\ pc = "done" =>
              findMatchPromise =
                  Fulfilled(MatchResult(ConfZero, NoRegion, ValidationError))

C2_Witness ==
    /\ pc = "done"
    /\ request.needle.height > request.haystack.height
    /\ request.needle.width <= request.haystack.width
    /\ findMatchesPromise = Rejected(ValidationError)
    /\ findMatchPromise.value.error = ValidationError

\* C3: a MatchResult that carries an error has confidence 0 and location
\* (0,0,0,0); the results in a list returned by findMatches carry no error.
C3_MatchResultInvariant ==
    /\ FindMatchReturned =>
          (findMatchPromise.value.error # Undefined =>
              /\ findMatchPromise.value.confidence = ConfZero
              /\ findMatchPromise.value.location = NoRegion)
    /\ FindMatchesReturned =>
          \A i \in 1..Len(findMatchesPromise.value) :
              findMatchesPromise.value[i].error = Undefined

C3_Witness ==
    /\ pc = "done"
    /\ FindMatchesReturned
    /\ FindMatchReturned
    /\ findMatchPromise.value.error = NoMatchError
    /\ findMatchPromise.value.confidence = ConfZero

HaystackWidth == request.haystack.width
HaystackHeight == request.haystack.height
NeedleWidth == request.needle.width
NeedleHeight == request.needle.height
NeedleFits == NeedleWidth <= HaystackWidth /\ NeedleHeight <= HaystackHeight
CandidateOffsets ==
    (0..(HaystackWidth - NeedleWidth)) \X (0..(HaystackHeight - NeedleHeight))
Matches == findMatchesPromise.value

\* The sample of the converted haystack at column x, row y.
HaystackAt(x, y) == rawHaystack[y * HaystackWidth + x + 1]

\* The window of the converted haystack at offset o holds only the value v.
WindowIsAll(o, v) ==
    \A j \in 0..(NeedleHeight - 1) : \A i \in 0..(NeedleWidth - 1) :
        HaystackAt(o[1] + i, o[2] + j) = v

\* The window of the converted haystack at offset o is the converted needle.
WindowIsNeedle(o) ==
    /\ Len(rawNeedle) = NeedleWidth * NeedleHeight
    /\ \A j \in 0..(NeedleHeight - 1) : \A i \in 0..(NeedleWidth - 1) :
          HaystackAt(o[1] + i, o[2] + j) = rawNeedle[j * NeedleWidth + i + 1]

NeedleIsUniform ==
    /\ Len(rawNeedle) > 0
    /\ \A k \in 1..Len(rawNeedle) : rawNeedle[k] = rawNeedle[1]

RegionAt(o) == Region(o[1], o[2], NeedleWidth, NeedleHeight)

C5_SelfMatchExactness ==
    (FindMatchesReturned /\ request.confidence = Absent) =>
        \A o \in CandidateOffsets :
            WindowIsNeedle(o) =>
                \E i \in 1..Len(Matches) :
                    Matches[i] = MatchResult(ConfOne, RegionAt(o), Undefined)

C5_Witness ==
    /\ pc = "done"
    /\ FindMatchesReturned
    /\ request.confidence = Absent
    /\ ~NeedleIsUniform
    /\ \E o \in CandidateOffsets :
          /\ o[1] > 0
          /\ WindowIsNeedle(o)
          /\ \E i \in 1..Len(Matches) :
                Matches[i] = MatchResult(ConfOne, RegionAt(o), Undefined)

RegionsOf(matches) == { matches[i].location : i \in 1..Len(matches) }

\* What findMatches returns for the converted buffers at threshold t.
MatchesAt(t) ==
    templateMatch(rawHaystack, HaystackWidth, HaystackHeight,
                  rawNeedle, NeedleWidth, NeedleHeight, ConfOfRat(t))

RequestThreshold ==
    IF request.confidence = Absent THEN DEFAULT_CONFIDENCE ELSE request.confidence

\* C6: for the same haystack and needle, the regions returned at a
\* threshold are a subset of the regions returned at any lower threshold.
C6_ThresholdMonotonicity ==
    FindMatchesReturned =>
        \A t1 \in (Confidences \ {Absent}) \cup {DEFAULT_CONFIDENCE} :
            RLess(t1, RequestThreshold) =>
                RegionsOf(Matches) \subseteq RegionsOf(MatchesAt(t1))

C6_Witness ==
    /\ pc = "done"
    /\ FindMatchesReturned
    /\ ~NeedleIsUniform
    /\ request.confidence = Rat(1, 2)
    /\ Matches # <<>>
    /\ RegionsOf(Matches) # RegionsOf(MatchesAt(RInt(0)))
    /\ RegionsOf(Matches) \subseteq RegionsOf(MatchesAt(RInt(0)))

\* C7: for a uniform needle of value V, findMatches returns exactly one
\* match, with confidence 1.0, for each candidate offset whose haystack
\* window holds only V, and no match for any other offset.
C7_DegenerateNeedle ==
    (FindMatchesReturned /\ NeedleIsUniform) =>
        LET full == { o \in CandidateOffsets : WindowIsAll(o, rawNeedle[1]) }
        IN  /\ { Matches[i] : i \in 1..Len(Matches) } =
                   { MatchResult(ConfOne, RegionAt(o), Undefined) : o \in full }
            /\ Len(Matches) = Cardinality(full)

C7_Witness ==
    /\ pc = "done"
    /\ FindMatchesReturned
    /\ NeedleIsUniform
    /\ NeedleWidth * NeedleHeight > 1
    /\ Cardinality(CandidateOffsets) > 2
    /\ \E o \in CandidateOffsets :
          /\ o # <<0, 0>>
          /\ Matches = <<MatchResult(ConfOne, RegionAt(o), Undefined)>>
    /\ \E o \in CandidateOffsets :
          /\ ~WindowIsAll(o, rawNeedle[1])
          /\ \E i \in 0..(NeedleWidth - 1) : HaystackAt(o[1] + i, o[2]) = rawNeedle[1]

ScenarioRequest == MatchRequest(ScenarioHaystack, ScenarioNeedle, Absent)

\* C8: for the 4x4 haystack of 10 with a 2x2 block of 200 at (1,1) and the
\* 2x2 needle of 200, findMatches with the default threshold returns exactly
\* one result: confidence 1.0, region {left 1, top 1, width 2, height 2}.
C8_ConcreteScenario ==
    (request = ScenarioRequest /\ pc \in {"settled", "done"}) =>
        findMatchesPromise =
            Fulfilled(<<MatchResult(ConfOne, Region(1, 1, 2, 2), Undefined)>>)

C8_Witness ==
    /\ request = ScenarioRequest
    /\ pc = "done"
    /\ Len(Matches) = 1
    /\ Matches[1].location = Region(1, 1, 2, 2)

\* C9: when findMatches returns a non-empty list, findMatch returns the
\* element with the greatest confidence, and of the elements tied for it the
\* first one of the list.
C9_FindMatchSelection ==
    (pc = "done" /\ FindMatchesReturned /\ Matches # <<>>) =>
        \E i \in 1..Len(Matches) :
            /\ findMatchPromise = Fulfilled(Matches[i])
            /\ \A j \in 1..Len(Matches) :
                  ConfGeq(Matches[i].confidence, Matches[j].confidence)
            /\ \A j \in 1..(i - 1) :
                  Matches[j].confidence # Matches[i].confidence

C9_Witness ==
    /\ pc = "done"
    /\ FindMatchesReturned
    /\ \E i \in 2..Len(Matches) : \E j \in (i + 1)..Len(Matches) :
          /\ Matches[i].confidence = Matches[j].confidence
          /\ findMatchPromise = Fulfilled(Matches[i])
          /\ Matches[1].confidence # Matches[i].confidence

\* C10: findMatches returns its matches in raster scan order: of two
\* results the earlier one has the smaller (top, left), rows first, in the
\* correlation branch and in the uniform-needle branch.
C10_ScanOrder ==
    FindMatchesReturned =>
        \A i \in 1..Len(Matches) : \A j \in (i + 1)..Len(Matches) :
            \/ Matches[i].location.top < Matches[j].location.top
            \/ /\ Matches[i].location.top = Matches[j].location.top
               /\ Matches[i].location.left < Matches[j].location.left

C10_Witness ==
    /\ pc = "done"
    /\ FindMatchesReturned
    /\ ~NeedleIsUniform
    /\ Len(Matches) >= 3
    /\ \E i \in 1..Len(Matches) : \E j \in (i + 1)..Len(Matches) :
          /\ Matches[i].location.top < Matches[j].location.top
          /\ Matches[i].location.left > Matches[j].location.left
    /\ \E i \in 1..Len(Matches) :
          Matches[i].confidence # Matches[1].confidence

\* The score the engine gives the window at offset o reaches threshold t:
\* 1.0 for a window that equals a uniform needle, the correlation otherwise.
WindowReaches(o, t) ==
    IF NeedleIsUniform
    THEN WindowIsAll(o, rawNeedle[1]) /\ ConfGeq(ConfOne, ConfOfRat(t))
    ELSE ConfGeq(calculateNCC(extractRegion(rawHaystack, HaystackWidth, o[1], o[2],
                                            NeedleWidth, NeedleHeight),
                              rawNeedle, calculateMean(rawNeedle),
                              calculateStdDev(rawNeedle, calculateMean(rawNeedle))),
                 ConfOfRat(t))

\* C11: for a valid request with no window at or above the threshold,
\* findMatches returns an empty list without throwing, and findMatch returns
\* MatchResult(0, Region(0,0,0,0), NoMatchError).
C11_NoMatchAsymmetry ==
    (/\ FindMatchesReturned
     /\ \A o \in CandidateOffsets : ~WindowReaches(o, RequestThreshold)) =>
        /\ Matches = <<>>
        /\ pc = "done" =>
              findMatchPromise = Fulfilled(MatchResult(ConfZero, NoRegion, NoMatchError))

\* C12: with the request's confidence absent, findMatches filters with the
\* threshold 0.8: it returns what it returns at an explicit 0.8.
C12_DefaultThreshold ==
    (FindMatchesReturned /\ request.confidence = Absent) =>
        Matches = MatchesAt(Rat(4, 5))

C12_Witness ==
    /\ pc = "done"
    /\ request.confidence = Absent
    /\ FindMatchesReturned
    /\ ~NeedleIsUniform
    /\ Matches # <<>>
    /\ Matches # MatchesAt(Rat(7, 10))

DataInconsistent(image) ==
    Len(image.data) # image.width * image.height * image.channels

\* C14: when the data of the haystack or of the needle is inconsistent with
\* the declared width, height and channels, findMatches throws the
\* conversion error; it does not return a list.
C14_ConversionErrorPropagates ==
    (/\ NeedleFits
     /\ DataInconsistent(request.haystack) \/ DataInconsistent(request.needle)
     /\ pc \in {"settled", "done"}) =>
        findMatchesPromise = Rejected(ConversionError)

C14_Witness ==
    /\ pc = "done"
    /\ NeedleFits
    /\ ~DataInconsistent(request.haystack)
    /\ DataInconsistent(request.needle)
    /\ rawHaystack # <<>>
    /\ findMatchesPromise = Rejected(ConversionError)

\* C18: when the needle's width and height equal the haystack's, findMatches
\* returns at most one result and any result has left = 0 and top = 0.
C18_EqualSize ==
    (/\ FindMatchesReturned
     /\ NeedleWidth = HaystackWidth
     /\ NeedleHeight = HaystackHeight) =>
        /\ Len(Matches) <= 1
        /\ \A i \in 1..Len(Matches) :
              Matches[i].location.left = 0 /\ Matches[i].location.top = 0

C18_Witness ==
    /\ pc = "done"
    /\ FindMatchesReturned
    /\ NeedleWidth = HaystackWidth
    /\ NeedleHeight = HaystackHeight
    /\ NeedleWidth * NeedleHeight > 1
    /\ ~NeedleIsUniform
    /\ Len(Matches) = 1
    /\ Matches[1].location = Region(0, 0, NeedleWidth, NeedleHeight)

\* The correlation of the converted needle with the window at offset o.
ConfidenceAt(o) ==
    calculateNCC(extractRegion(rawHaystack, HaystackWidth, o[1], o[2],
                               NeedleWidth, NeedleHeight),
                 rawNeedle, calculateMean(rawNeedle),
                 calculateStdDev(rawNeedle, calculateMean(rawNeedle)))

\* C19: for a non-uniform needle, the result of findMatches holds
\* MatchResult(confidence, Region(x, y, needleWidth, needleHeight)) for exactly
\* the candidate offsets (x, y) whose confidence is >= minConfidence.
C19_Completeness ==
    (FindMatchesReturned /\ ~NeedleIsUniform) =>
        /\ { Matches[i] : i \in 1..Len(Matches) } =
               { MatchResult(ConfidenceAt(o), RegionAt(o), Undefined) :
                   o \in { c \in CandidateOffsets :
                              ConfGeq(ConfidenceAt(c), ConfOfRat(RequestThreshold)) } }
        /\ Len(Matches) = Cardinality({ Matches[i] : i \in 1..Len(Matches) })

C19_Witness ==
    /\ pc = "done"
    /\ FindMatchesReturned
    /\ ~NeedleIsUniform
    /\ Cardinality(CandidateOffsets) >= 4
    /\ Len(Matches) >= 2
    /\ Len(Matches) < Cardinality(CandidateOffsets)
    /\ \E i \in 1..Len(Matches) :
          /\ Matches[i].location.left = HaystackWidth - NeedleWidth
          /\ Matches[i].location.top = HaystackHeight - NeedleHeight

\* C20: the dimension check comes before any conversion: for an oversize
\* needle no image is handed to the adapter, and the error of findMatches is
\* the validation error even when the data would also fail conversion.
C20_ValidationFirst ==
    C2_Oversize =>
        /\ pc \notin {"awaitHaystack", "awaitNeedle"}
        /\ rawHaystack = <<>> /\ rawNeedle = <<>>
        /\ FindMatchesSettled => findMatchesPromise.reason = ValidationError

C20_Witness ==
    /\ pc = "done"
    /\ request.needle.width > request.haystack.width
    /\ DataInconsistent(request.haystack)
    /\ DataInconsistent(request.needle)
    /\ findMatchesPromise = Rejected(ValidationError)

\* C17: findMatch and findMatches leave the request and both images as they
\* were: no step of a call, successful or failing, changes the haystack's or
\* the needle's data or dimensions or the request's confidence.
C17_InputsReadOnly == [][request' = request]_vars

C17_Witness ==
    /\ pc = "done"
    /\ FindMatchesReturned
    /\ Matches # <<>>
    /\ request.haystack.channels = 2
    /\ request.haystack.data # <<>>
    /\ rawHaystack = request.haystack.data

OtherColorMode(image) ==
    [image EXCEPT
        !.colorMode = IF image.colorMode = BGR THEN RGB ELSE BGR,
        !.data = [k \in 1..Len(image.data) |->
                    LET o == (k - 1) % image.channels
                    IN  IF o = 0 THEN image.data[k + 2]
                        ELSE IF o = 2 THEN image.data[k - 2]
                        ELSE image.data[k]]]

\* C16: the adapter normalizes the channel order by the color-mode tag
\* before collapsing: the picture of the haystack stored in the other color
\* mode, with the other tag, converts to the same grayscale buffer.
C16_ColorModeNormalized ==
    (pc \in {"awaitNeedle", "settled", "done"} /\ rawHaystack # <<>>) =>
        imageToRawBuffer(OtherColorMode(request.haystack)).buffer = rawHaystack

\* C13: two findMatches calls in flight at once, interleaved in any way at
\* their awaits, each settle with the result findMatches gives for that
\* request when it runs alone, whatever the other call did before or
\* meanwhile.
C13_ConcurrentCallsIndependent ==
    \A c \in Callers :
        calls[c].pc = "settled" =>
            calls[c].promise = findMatches(calls[c].request)

\* Call 1 has returned matches while call 2, on another haystack, is
\* suspended between its two awaits.
C13_Witness ==
    /\ calls[1].pc = "settled"
    /\ calls[1].promise.state = "fulfilled"
    /\ calls[1].promise.value # <<>>
    /\ calls[2].pc = "awaitNeedle"
    /\ frames[2].haystackBuffer # frames[1].haystackBuffer
    /\ findMatches(calls[2].request) # calls[1].promise

\* The window of the converted haystack at offset o has all pixels equal.
WindowIsFlat(o) == WindowIsAll(o, HaystackAt(o[1], o[2]))

\* The result list has an entry for the window at offset o.
Reported(o) == \E i \in 1..Len(Matches) : Matches[i].location = RegionAt(o)

\* C21: with a non-uniform needle, a haystack window whose pixels are all
\* equal gets confidence exactly 0.0: it is in the result, with confidence
\* 0.0, if and only if the threshold is <= 0.
C21_FlatWindow ==
    (FindMatchesReturned /\ ~NeedleIsUniform) =>
        \A o \in CandidateOffsets :
            WindowIsFlat(o) =>
                /\ ConfidenceAt(o) = ConfZero
                /\ Reported(o) <=> RLeq(RequestThreshold, RInt(0))
                /\ \A i \in 1..Len(Matches) :
                      Matches[i].location = RegionAt(o) =>
                          Matches[i].confidence = ConfZero

C21_Witness ==
    /\ pc = "done"
    /\ FindMatchesReturned
    /\ ~NeedleIsUniform
    /\ request.confidence = RInt(0)
    /\ NeedleWidth * NeedleHeight > 1
    /\ \E o \in CandidateOffsets :
          /\ WindowIsFlat(o)
          /\ \E i \in 1..Len(Matches) :
                Matches[i] = MatchResult(ConfZero, RegionAt(o), Undefined)
    /\ \E o \in CandidateOffsets : ~WindowIsFlat(o)

RECURSIVE SumInt(_, _)
SumInt(f, n) == IF n = 0 THEN 0 ELSE SumInt(f, n - 1) + f[n]

\* The deviations of a buffer from its mean, each multiplied by the length
\* of the buffer (so that they are integers).
ScaledDeviations(buffer) ==
    [i \in 1..Len(buffer) |-> Len(buffer) * buffer[i] - SumInt(buffer, Len(buffer))]

\* The score of the formula for the window at offset o, from integer sums:
\* with N window pixels and M needle samples, r and n the scaled deviations,
\* NCC has the sign of sum(r*n) over the N pairs and the square
\* M * sum(r*n)^2 / (N * sum(r^2) * sum(n^2)).
FormulaScore(o) ==
    LET region == extractRegion(rawHaystack, HaystackWidth, o[1], o[2],
                                NeedleWidth, NeedleHeight)
        r == ScaledDeviations(region)
        n == ScaledDeviations(rawNeedle)
        cross == SumInt([i \in 1..Len(r) |-> r[i] * n[i]], Len(r))
        rr == SumInt([i \in 1..Len(r) |-> r[i] * r[i]], Len(r))
        nn == SumInt([i \in 1..Len(n) |-> n[i] * n[i]], Len(n))
    IN  Root(Sign(cross), RMul(Rat(cross * cross, rr), Rat(Len(n), Len(r) * nn)))

\* C22: for a non-uniform needle and a window that is not flat, the
\* confidence reported for the window is (NCC + 1) / 2, NCC being the mean
\* of the products of the deviations divided by the product of the two
\* population standard deviations.
C22_ScoreFormula ==
    (FindMatchesReturned /\ ~NeedleIsUniform) =>
        \A i \in 1..Len(Matches) :
            LET o == <<Matches[i].location.left, Matches[i].location.top>>
            IN  ~WindowIsFlat(o) => Matches[i].confidence = FormulaScore(o)

C22_Witness ==
    /\ pc = "done"
    /\ FindMatchesReturned
    /\ ~NeedleIsUniform
    /\ Len(rawNeedle) = 4
    /\ \E i \in 1..Len(Matches) :
          LET o == <<Matches[i].location.left, Matches[i].location.top>>
          IN  /\ ~WindowIsFlat(o)
              /\ Matches[i].confidence = FormulaScore(o)
              /\ Matches[i].confidence \notin {ConfZero, ConfOne, ConfOfRat(Rat(1, 2))}

\* The window at offset o is the needle times num/den plus off/den, pixel
\* by pixel.
WindowIsAffine(o, num, den, off) ==
    /\ Len(rawNeedle) = NeedleWidth * NeedleHeight
    /\ \A j \in 0..(NeedleHeight - 1) : \A i \in 0..(NeedleWidth - 1) :
          den * HaystackAt(o[1] + i, o[2] + j) =
              num * rawNeedle[j * NeedleWidth + i + 1] + off

\* The window at offset o with gain and offset applied to every pixel.
Adjusted(o, gain, offset) ==
    LET region == extractRegion(rawHaystack, HaystackWidth, o[1], o[2],
                                NeedleWidth, NeedleHeight)
    IN  [i \in 1..Len(region) |-> gain * region[i] + offset]

\* The confidence findMatches reports for offset o is c.
ReportedWith(o, c) ==
    \E i \in 1..Len(Matches) : Matches[i] = MatchResult(c, RegionAt(o), Undefined)

\* C23: for a non-uniform needle, a window that is a*needle + b pixel by
\* pixel is reported with confidence 1.0 when a > 0 and 0.0 when a < 0, and
\* the confidence of a window is the confidence of the window with a
\* positive gain and an offset applied to it.
C23_GainOffsetInvariance ==
    (/\ FindMatchesReturned
     /\ ~NeedleIsUniform
     /\ Len(rawNeedle) = NeedleWidth * NeedleHeight) =>
        \A o \in CandidateOffsets :
            /\ \A num \in (-MaxGainPixel..MaxGainPixel) \ {0} :
               \A den \in 1..MaxGainPixel :
               \A off \in (-MaxGainPixel * MaxGainPixel)..(MaxGainPixel * MaxGainPixel) :
                  WindowIsAffine(o, num, den, off) =>
                      ReportedWith(o, IF num > 0 THEN ConfOne ELSE ConfZero)
            /\ \A gain \in 1..2 : \A offset \in 0..1 :
                  ReportedWith(o,
                      calculateNCC(Adjusted(o, gain, offset), rawNeedle,
                                   calculateMean(rawNeedle),
                                   calculateStdDev(rawNeedle, calculateMean(rawNeedle))))

C23_Witness ==
    /\ pc = "done"
    /\ FindMatchesReturned
    /\ ~NeedleIsUniform
    /\ WindowIsAffine(<<0, 0>>, 2, 1, 1)
    /\ \E i \in 1..(NeedleWidth - 1) : rawNeedle[i] > rawNeedle[i + 1]
    /\ \E i \in 1..(NeedleWidth - 1) : rawNeedle[i] < rawNeedle[i + 1]
    /\ ReportedWith(<<0, 0>>, ConfOne)

\* The size validation of findMatches has let the request through.
PassedValidation ==
    pc # "called" /\ findMatchesPromise # Rejected(ValidationError)

\* C24 as stated: every request that passes the size validation has a
\* needle and a haystack of non-zero area.
C24_ValidationGivesArea ==
    PassedValidation =>
        /\ NeedleWidth * NeedleHeight > 0
        /\ HaystackWidth * HaystackHeight > 0

\* C24: whenever the scan has run (findMatches returned), the needle and
\* the haystack have non-zero area and both buffers are non-empty: no mean
\* or deviation is taken over an empty buffer, no confidence is NaN.
C24_NoEmptyBufferInScan ==
    FindMatchesReturned =>
        /\ NeedleWidth * NeedleHeight > 0
        /\ HaystackWidth * HaystackHeight > 0
        /\ Len(rawNeedle) > 0
        /\ Len(rawHaystack) > 0
        /\ calculateMean(rawNeedle) # NaN
        /\ \A o \in CandidateOffsets :
              Len(extractRegion(rawHaystack, HaystackWidth, o[1], o[2],
                                NeedleWidth, NeedleHeight)) > 0

\* A request with a needle of no area passes the validation, and does not
\* reach the scan; a request with a needle of one pixel does.
C24_Witness ==
    /\ pc = "done"
    /\ FindMatchesReturned
    /\ NeedleWidth * NeedleHeight = 1
    /\ Len(rawNeedle) = 1
    /\ Matches # <<>>

\* C25: every MatchResult findMatches returns has a confidence >= the
\* effective threshold (the request's confidence, 0.8 when absent), for
\* uniform and non-uniform needles and for thresholds above 1 as well.
C25_ThresholdRespected ==
    FindMatchesReturned =>
        \A i \in 1..Len(Matches) :
            ConfGeq(Matches[i].confidence, ConfOfRat(RequestThreshold))

\* C26: every region findMatches returns has the needle's width and height
\* and lies inside the haystack (0 <= left <= haystackWidth - needleWidth,
\* 0 <= top <= haystackHeight - needleHeight), no two results have the same
\* (left, top), and there are at most as many results as candidate offsets.
C26_RegionsWellFormed ==
    FindMatchesReturned =>
        /\ \A i \in 1..Len(Matches) :
              /\ Matches[i].location.width = NeedleWidth
              /\ Matches[i].location.height = NeedleHeight
              /\ Matches[i].location.left \in 0..(HaystackWidth - NeedleWidth)
              /\ Matches[i].location.top \in 0..(HaystackHeight - NeedleHeight)
        /\ \A i \in 1..Len(Matches) : \A j \in 1..Len(Matches) :
              (/\ Matches[i].location.left = Matches[j].location.left
               /\ Matches[i].location.top = Matches[j].location.top) => i = j
        /\ Len(Matches) <=
              (HaystackWidth - NeedleWidth + 1) * (HaystackHeight - NeedleHeight + 1)

C26_Witness ==
    /\ pc = "done"
    /\ FindMatchesReturned
    /\ ~NeedleIsUniform
    /\ HaystackWidth > NeedleWidth
    /\ HaystackHeight > NeedleHeight
    /\ Len(Matches) =
          (HaystackWidth - NeedleWidth + 1) * (HaystackHeight - NeedleHeight + 1)
    /\ \E i \in 1..Len(Matches) :
          /\ Matches[i].location.left = HaystackWidth - NeedleWidth
          /\ Matches[i].location.top = HaystackHeight - NeedleHeight

\* C27: findMatch returns a result with an error if and only if
\* findMatches on the same request throws or returns an empty list;
\* otherwise its result is an element of the list findMatches returns, has
\* no error, and its confidence is >= every confidence of the list.
C27_FindMatchAgrees ==
    pc = "done" =>
        LET alone == findMatches(request)
            result == findMatchPromise.value
        IN  /\ FindMatchReturned
            /\ result.error # Undefined <=>
                   (alone.state = "rejected" \/ alone.value = <<>>)
            /\ result.error = Undefined =>
                   /\ \E i \in 1..Len(alone.value) : result = alone.value[i]
                   /\ \A j \in 1..Len(alone.value) :
                         ConfGeq(result.confidence, alone.value[j].confidence)

C27_Witness ==
    /\ pc = "done"
    /\ findMatches(request).state = "fulfilled"
    /\ Len(findMatches(request).value) >= 2
    /\ findMatchPromise.value.error = Undefined
    /\ findMatchPromise.value # findMatches(request).value[1]
    /\ findMatchPromise.value \in
          { findMatches(request).value[i] : i \in 1..Len(findMatches(request).value) }

LiveWorkers == { w \in 1..Len(workers) : workers[w] = "live" }

\* C28: when two findMatches calls run on one DefaultAdapter, no call
\* invokes recognize on a worker that is null or already terminated.
C28_RecognizeOnLiveWorker ==
    (\A c \in Tasks : ocr[c].op = "findMatches") =>
        \A c \in Tasks : ocr[c].recognizeOn \in {"none", "live"}

\* C29: at most one worker is created and not terminated, and once all
\* calls are over every worker that is not terminated is the one in the
\* worker field (none was overwritten and lost).
C29_WorkerLifecycle ==
    /\ Cardinality(LiveWorkers) <= 1
    /\ (\A c \in Tasks : ocr[c].pc = "done") => LiveWorkers \subseteq {worker}

\* C30: keyup always settles: when pressKey or releaseKey rejects, the
\* promise keyup returned is eventually rejected; it does not stay pending.
C30_KeyupSettles ==
    (pressKeyPromise.state = "rejected" \/ releaseKeyPromise.state = "rejected")
        ~> (keyupPromise.state = "rejected")

====
